---- MODULE Spec2Model ----
(***************************************************************************)
(* Swasthya Saathi frontend: the APIService (services/api), the            *)
(* ReportProvider context, and the App with its screens (LandingScreen,    *)
(* ProcessingScreen, ReportOverview, TrendsView).                          *)
(*                                                                         *)
(* JavaScript values are modelled as follows.  A string is a TLA+ string;  *)
(* undefined, null, true and false are the reserved strings below.  A JSON *)
(* body is a record [kind, fields] whose fields is a function from keys to *)
(* values.  A thrown value is a record [name, message].                    *)
(***************************************************************************)
EXTENDS Integers, Sequences, FiniteSets, TLC

Undefined == "<undefined>"
JNull == "<null>"
JTrue == "<true>"
JFalse == "<false>"

\* JavaScript truthiness of a scalar: what `a || b` tests.
Truthy(v) == v \notin {Undefined, JNull, JFalse, ""}

\* a || b
Or(a, b) == IF Truthy(a) THEN a ELSE b

\* {...a, ...b}: the keys of both, b's value winning.
Spread(a, b) == [k \in DOMAIN a \cup DOMAIN b |-> IF k \in DOMAIN b THEN b[k] ELSE a[k]]

RECURSIVE Join(_)
\* A string built from pieces (a template literal's parts), concatenated.
Join(s) == IF s = <<>> THEN "" ELSE Head(s) \o Join(Tail(s))

(***************************************************************************)
(* JSON bodies                                                             *)
(***************************************************************************)
NoFields == [k \in {} |-> ""]
JObject(f) == [kind |-> "object", fields |-> f]
JNullBody == [kind |-> "null", fields |-> NoFields]
JNumberBody == [kind |-> "number", fields |-> NoFields]
Unparseable == [kind |-> "unparseable", fields |-> NoFields]

\* v.key on a parsed JSON value that is not null: undefined when absent.
Get(v, key) == IF v.kind = "object" /\ key \in DOMAIN v.fields THEN v.fields[key] ELSE Undefined

Thrown(n, m) == [name |-> n, message |-> m]
Resolved(v) == [state |-> "resolved", value |-> v, error |-> Thrown("", "")]
Rejected(e) == [state |-> "rejected", value |-> JNullBody, error |-> e]

\* err instanceof Error: every thrown value of the model is an Error or a subclass.
IsError(e) == e.name \in {"Error", "TypeError", "SyntaxError"}

(***************************************************************************)
(* APIService                                                              *)
(***************************************************************************)
API_BASE_URL == "http://localhost:8000"

\* The first argument of fetch: a sequence of string pieces, in order.
Url(endpoint) == <<API_BASE_URL>> \o endpoint

\* A request() that passes the caller's options alone.
FetchInit_OptionsOnly(options) == options

\* The second argument of fetch in request().
FetchInit(options) == Spread([credentials |-> "include"], options)

NoOptions == [k \in {} |-> ""]

\* What fetch does with its init: the method defaults to GET and the
\* credentials mode to same-origin.
HttpMethod(init) == IF "method" \in DOMAIN init THEN init["method"] ELSE "GET"
Credentials(init) == IF "credentials" \in DOMAIN init THEN init["credentials"] ELSE "same-origin"

\* response.ok
Ok(status) == status >= 200 /\ status <= 299

\* response.json(): rejects with a SyntaxError when the body is not JSON.
JsonParse(body) == IF body.kind = "unparseable"
                   THEN Rejected(Thrown("SyntaxError", "Unexpected token < in JSON at position 0"))
                   ELSE Resolved(body)

\* The !response.ok branch of request(): the value it throws.
ErrorOf(body) == LET parsed == JsonParse(body)
                     error == IF parsed.state = "rejected"
                              THEN JObject([detail |-> "Request failed"])
                              ELSE parsed.value
                 IN  IF error.kind = "null"
                     THEN Thrown("TypeError", "Cannot read properties of null (reading 'detail')")
                     ELSE Thrown("Error", Or(Or(Get(error, "detail"), Get(error, "message")), "Request failed"))

\* request(): the promise it returns, settled, for a backend reply resp.
\* A reply is [net |-> "error", message] when fetch itself rejects, and
\* [net |-> "ok", status, body] otherwise.
Request(resp) == IF resp.net = "error" THEN Rejected(Thrown("TypeError", resp.message))
                 ELSE IF ~Ok(resp.status) THEN Rejected(ErrorOf(resp.body))
                 ELSE JsonParse(resp.body)

\* encodeURIComponent on one character of the model's alphabet.
EncodeChar(c) == CASE c = " " -> "%20"
                   [] c = "?" -> "%3F"
                   [] c = "&" -> "%26"
                   [] c = "/" -> "%2F"
                   [] c = "=" -> "%3D"
                   [] c = "%" -> "%25"
                   [] OTHER -> c

\* encodeURIComponent on a string given as its characters.
EncodeURIComponent(s) == [i \in 1..Len(s) |-> EncodeChar(s[i])]

\* Each method's endpoint (string pieces) and options, as passed to request().
\* A string argument is [given, chars]: whether it was passed, and its
\* characters.
HealthCheckCall == [endpoint |-> <<"/health">>, options |-> NoOptions]
UploadReportCall == [endpoint |-> <<"/reports/upload">>,
                     options |-> [method |-> "POST", body |-> "FormData"]]
GetLatestReportCall == [endpoint |-> <<"/reports/latest">>, options |-> NoOptions]
GetReportHistoryCall == [endpoint |-> <<"/reports/history">>, options |-> NoOptions]
GetReportCall(reportId) == [endpoint |-> <<"/reports/">> \o reportId.chars, options |-> NoOptions]
\* A getTrends that puts the parameter into the query as it is.
GetTrendsCall_Unencoded(parameter) ==
    [endpoint |-> <<"/reports/trends/data">>
                  \o (IF parameter.given /\ parameter.chars # <<>>
                      THEN <<"?parameter=">> \o parameter.chars ELSE <<>>),
     options |-> NoOptions]

GetTrendsCall(parameter) ==
    LET query == IF parameter.given /\ parameter.chars # <<>>
                 THEN <<"?parameter=">> \o EncodeURIComponent(parameter.chars)
                 ELSE <<>>
    IN  [endpoint |-> <<"/reports/trends/data">> \o query, options |-> NoOptions]
GetHealthScoreCall == [endpoint |-> <<"/reports/health/clarity-score">>, options |-> NoOptions]
GetTimelineCall == [endpoint |-> <<"/reports/action-timeline">>, options |-> NoOptions]
GetExplanationCall == [endpoint |-> <<"/reports/explain">>,
                       options |-> [method |-> "POST", headers |-> "Content-Type: application/json",
                                    body |-> "JSON"]]

Methods == {"healthCheck", "uploadReport", "getLatestReport", "getReportHistory", "getReport",
            "getTrends", "getHealthScore", "getTimeline", "getExplanation"}

\* The call an APIService method makes for argument arg.
MethodCall(m, arg) == CASE m = "healthCheck" -> HealthCheckCall
                        [] m = "uploadReport" -> UploadReportCall
                        [] m = "getLatestReport" -> GetLatestReportCall
                        [] m = "getReportHistory" -> GetReportHistoryCall
                        [] m = "getReport" -> GetReportCall(arg)
                        [] m = "getTrends" -> GetTrendsCall(arg)
                        [] m = "getHealthScore" -> GetHealthScoreCall
                        [] m = "getTimeline" -> GetTimelineCall
                        [] m = "getExplanation" -> GetExplanationCall

\* The HTTP request fetch sends for a call: split at the query, as a URL is.
IsQueryStart(piece) == piece \in {"?", "?parameter="}
RECURSIVE PathPieces(_)
PathPieces(s) == IF s = <<>> \/ IsQueryStart(Head(s)) THEN <<>> ELSE <<Head(s)>> \o PathPieces(Tail(s))
Sent(c) == LET init == FetchInit(c.options)
           IN  [url |-> Join(Url(c.endpoint)),
                path |-> Join(PathPieces(c.endpoint)),
                query |-> Join(SubSeq(c.endpoint, Len(PathPieces(c.endpoint)) + 1, Len(c.endpoint))),
                method |-> HttpMethod(init),
                credentials |-> Credentials(init)]

(***************************************************************************)
(* The documented endpoint table (README, "API Endpoints")                 *)
(***************************************************************************)
\* The method and path the table gives for the operation behind each
\* APIService method; {report_id} is the argument.
DocEndpoint(m, arg) == CASE m = "uploadReport" -> [method |-> "POST", path |-> "/reports/upload"]
                         [] m = "getLatestReport" -> [method |-> "GET", path |-> "/reports/latest"]
                         [] m = "getReportHistory" -> [method |-> "GET", path |-> "/reports/history"]
                         [] m = "getReport" -> [method |-> "GET", path |-> Join(<<"/reports/">> \o arg.chars)]
                         [] m = "getTrends" -> [method |-> "GET", path |-> "/reports/trends/data"]
                         [] m = "getExplanation" -> [method |-> "POST", path |-> "/reports/explain"]
                         [] m = "getHealthScore" -> [method |-> "GET", path |-> "/reports/health/clarity-score"]
                         [] m = "getTimeline" -> [method |-> "GET", path |-> "/reports/timeline"]
                         [] m = "healthCheck" -> [method |-> "GET", path |-> "/health"]

(***************************************************************************)
(* TrendsView: the status of a parameter (the `parameters` map)            *)
(***************************************************************************)
\* pData?.data_points || []
PointsOf(pData) == IF pData.hasDataPoints THEN pData.data_points ELSE <<>>

\* A status taken from the first data point instead of the last.
StatusOf_FirstPoint(pData) == LET points == PointsOf(pData)
                              IN  IF Len(points) = 0 THEN "normal"
                                  ELSE IF points[1].value < points[1].refLow THEN "low"
                                  ELSE IF points[1].value > points[1].refHigh THEN "high"
                                  ELSE "normal"

\* The status computed for one entry of parameter_trends.
StatusOf(pData) == LET points == PointsOf(pData)
                   IN  IF Len(points) = 0 THEN "normal"
                       ELSE LET lastPoint == points[Len(points)]
                            IN  IF lastPoint.value < lastPoint.refLow THEN "low"
                                ELSE IF lastPoint.value > lastPoint.refHigh THEN "high"
                                ELSE "normal"

(***************************************************************************)
(* TrendsView: the label of the score history (getHealthScoreTrend)        *)
(***************************************************************************)
\* new Date(date).getTime() for the dates of the model, in days since the
\* epoch.
GetTime(date) == CASE date = "2024-01-15" -> 19737
                   [] date = "2024-02-10" -> 19763
                   [] date = "2024-03-05" -> 19787

\* A history used in the order the backend sent it.
SortByDate_AsSent(h) == h

\* One step of the sort: x goes behind every element that is not later.
RECURSIVE InsertByDate(_, _)
InsertByDate(sorted, x) ==
    IF sorted = <<>> THEN <<x>>
    ELSE IF GetTime(sorted[1].date) - GetTime(x.date) <= 0
    THEN <<sorted[1]>> \o InsertByDate(Tail(sorted), x)
    ELSE <<x>> \o sorted

\* [...healthScoreData].sort((a, b) => time(a) - time(b)): a stable sort.
RECURSIVE SortByDate(_)
SortByDate(h) == IF h = <<>> THEN <<>>
                 ELSE InsertByDate(SortByDate(SubSeq(h, 1, Len(h) - 1)), h[Len(h)])

\* A label computed from the history in the order the backend sent it.
getHealthScoreTrend_Unsorted(h) ==
    IF Len(h) < 2 THEN "Stable Trend"
    ELSE LET diff == h[Len(h)].score - h[1].score
         IN  IF diff >= 5 THEN "Improving Trend"
             ELSE IF diff <= -5 THEN "Declining Trend"
             ELSE "Stable Trend"

\* The label of getHealthScoreTrend for the score history h.
getHealthScoreTrend(h) ==
    IF Len(h) < 2 THEN "Stable Trend"
    ELSE LET sorted == SortByDate(h)
             first == sorted[1].score
             lastScore == sorted[Len(sorted)].score
             diff == lastScore - first
         IN  IF diff >= 5 THEN "Improving Trend"
             ELSE IF diff <= -5 THEN "Declining Trend"
             ELSE "Stable Trend"

(***************************************************************************)
(* Inputs                                                                  *)
(***************************************************************************)
MaxStrLen == 2
MaxVal == 3
MaxPoints == 2

Alphabet == {"a", "7", " ", "?", "&", "/", "%"}
Strings == UNION {[1..n -> Alphabet] : n \in 0..MaxStrLen}

\* Report identifiers are the backend's: letters and digits.
IdAlphabet == {"a", "7"}
ReportIds == UNION {[1..n -> IdAlphabet] : n \in 1..MaxStrLen}

\* The argument of a method: a report id, an optional parameter name, or none.
Given(chars) == [given |-> TRUE, chars |-> chars]
NoArg == [given |-> FALSE, chars |-> <<>>]
ArgsOf(m) == CASE m = "getReport" -> {Given(s) : s \in ReportIds}
               [] m = "getTrends" -> {Given(s) : s \in Strings} \cup {NoArg}
               [] OTHER -> {NoArg}

\* What the network and the backend can answer to one request.
NetworkErrors == {"Failed to fetch", "NetworkError when attempting to fetch resource.", "Load failed"}
Statuses == {200, 201, 299, 300, 404, 422, 500}
FieldValues == {Undefined, JNull, "", "Report not found", "could not fetch the record"}
ErrorObjects == {JObject([k \in {x \in {"detail", "message"} : (IF x = "detail" THEN d ELSE m) # Undefined}
                             |-> IF k = "detail" THEN d ELSE m]) : d \in FieldValues, m \in FieldValues}
Bodies == ErrorObjects \cup {JNullBody, JNumberBody, Unparseable}
Replies == {[net |-> "error", message |-> e, status |-> 0, body |-> Unparseable] : e \in NetworkErrors}
           \cup {[net |-> "ok", message |-> "", status |-> s, body |-> b] : s \in Statuses, b \in Bodies}

RefBounds == {1, 2}
DataPoints == [value : 0..MaxVal, refLow : RefBounds, refHigh : RefBounds]
PointSeqs == UNION {[1..n -> DataPoints] : n \in 0..MaxPoints}
ParameterTrends == [hasDataPoints : BOOLEAN, data_points : PointSeqs]

\* Score histories: dates in any order, scores four, five and ten apart.
TrendDates == {"2024-01-15", "2024-02-10", "2024-03-05"}
TrendScores == {65, 66, 70, 75}
ScoreSeqs == UNION {[1..n -> [date : TrendDates, score : TrendScores]] : n \in 0..MaxPoints}

(***************************************************************************)
(* The functions on their own: an input is drawn, the function applied.    *)
(***************************************************************************)
VARIABLES fn, fnIn, fnOut,
          currentScreen, mobileMenuOpen, splashTimer, procTimer,
          landing, dialogOpen, uploads, overview, trends, last,
          root, provider, pcalls, processingImpl, processing

fnVars == <<fn, fnIn, fnOut>>
provVars == <<root, provider, pcalls, processingImpl, processing>>
restVars == <<fn, fnIn, fnOut, root, provider, pcalls, processingImpl, processing>>
appVars == <<currentScreen, mobileMenuOpen, splashTimer, procTimer,
             landing, dialogOpen, uploads, overview, trends, last>>
vars == <<fn, fnIn, fnOut, currentScreen, mobileMenuOpen, splashTimer, procTimer,
          landing, dialogOpen, uploads, overview, trends, last, root, provider, pcalls,
          processingImpl, processing>>

NoOut == [done |-> FALSE]

FnInputs == /\ fnOut = NoOut
            /\ \/ fn = "call" /\ \E m \in Methods : \E a \in ArgsOf(m) :
                     fnIn = [method |-> m, arg |-> a]
               \/ fn = "request" /\ fnIn \in Replies
               \/ fn = "status" /\ fnIn \in ParameterTrends
               \/ fn = "trend" /\ fnIn \in ScoreSeqs

\* An APIService method is called: the request it hands to fetch.
ApplyCall == /\ fn = "call" /\ ~fnOut.done
             /\ fnOut' = [done |-> TRUE,
                          sent |-> Sent(MethodCall(fnIn.method, fnIn.arg))]
             /\ UNCHANGED <<fn, fnIn>> /\ UNCHANGED appVars /\ UNCHANGED provVars

\* request() settles for the reply.
ApplyRequest == /\ fn = "request" /\ ~fnOut.done
                /\ fnOut' = [done |-> TRUE, settled |-> Request(fnIn)]
                /\ UNCHANGED <<fn, fnIn>> /\ UNCHANGED appVars /\ UNCHANGED provVars

\* TrendsView renders one parameter's status.
ApplyStatus == /\ fn = "status" /\ ~fnOut.done
               /\ fnOut' = [done |-> TRUE, status |-> StatusOf(fnIn)]
               /\ UNCHANGED <<fn, fnIn>> /\ UNCHANGED appVars /\ UNCHANGED provVars

\* TrendsView renders the label of a score history.
ApplyTrend == /\ fn = "trend" /\ ~fnOut.done
              /\ fnOut' = [done |-> TRUE, label |-> getHealthScoreTrend(fnIn)]
              /\ UNCHANGED <<fn, fnIn>> /\ UNCHANGED appVars /\ UNCHANGED provVars

FnNext == ApplyCall \/ ApplyRequest \/ ApplyStatus \/ ApplyTrend

(***************************************************************************)
(* LandingScreen                                                           *)
(***************************************************************************)
MaxUploads == 2

\* selectedFile === null
NoFile == [type |-> "<null>", size |-> 0]

validTypes == {"application/pdf", "image/png", "image/jpeg", "image/jpg"}
maxSize == 10 * 1024 * 1024

\* The files a user may pick: every type at the size limit, and an accepted
\* and a rejected type one byte above it.
FileTypes == validTypes \cup {"image/gif", ""}
Files == {[type |-> t, size |-> maxSize] : t \in FileTypes}
         \cup {[type |-> t, size |-> maxSize + 1] : t \in {"application/pdf", "image/gif"}}

InvalidTypeError == "Invalid file type. Please upload PDF, PNG, or JPG files."
TooLargeError == "File too large. Maximum size is 10MB."
CannotConnect == "Cannot connect to server. Please make sure the backend is running on port 8000."
UploadFallback == "Failed to upload report. Please try again."

\* What the backend (or the network) answers to an upload.
UploadReplies ==
    {[net |-> "error", message |-> e, status |-> 0, body |-> Unparseable] : e \in {"Failed to fetch", "Load failed"}}
    \cup {[net |-> "ok", message |-> "", status |-> 422, body |-> JObject([detail |-> "could not fetch the record"])],
          [net |-> "ok", message |-> "", status |-> 500, body |-> Unparseable],
          [net |-> "ok", message |-> "", status |-> 500, body |-> JNullBody],
          [net |-> "ok", message |-> "", status |-> 200, body |-> JObject([success |-> JTrue, message |-> "Report processed"])],
          [net |-> "ok", message |-> "", status |-> 200, body |-> JObject([success |-> JFalse, message |-> "OCR confidence too low"])],
          [net |-> "ok", message |-> "", status |-> 200, body |-> JObject([success |-> JFalse])],
          [net |-> "ok", message |-> "", status |-> 200, body |-> JNullBody]}

NoReply == [net |-> "none", message |-> "", status |-> 0, body |-> Unparseable]

\* The last handler that ran, with its input: what the step was.
Event(a, f, i, r) == [act |-> a, file |-> f, slot |-> i, reply |-> r]
NoEvent == Event("none", NoFile, 0, NoReply)

\* useState initial values
LandingInit == [isDragging |-> FALSE, selectedFile |-> NoFile, isUploading |-> FALSE,
                uploadProgress |-> 0, error |-> JNull]

\* One call of handleUpload: where it is (awaiting the upload, waiting for
\* the 500 ms timer, done), whether its component is still mounted, whether
\* its progress interval is running, the paths it has requested, how it
\* ended, and how often it has called onUpload.
UnusedSlot == [pc |-> "unused", live |-> FALSE, interval |-> FALSE, reqs |-> <<>>,
               result |-> "none", onUploadCalls |-> 0]

HasFreeSlot == \E i \in 1..MaxUploads : uploads[i].pc = "unused"
FreeSlot == CHOOSE i \in 1..MaxUploads :
                /\ uploads[i].pc = "unused"
                /\ \A j \in 1..(i - 1) : uploads[j].pc # "unused"

\* file.size > maxSize, with the limit itself accepted.
FileTooLarge_AtLimit(file) == file.size >= maxSize

\* file.size > maxSize
FileTooLarge(file) == file.size > maxSize

\* handleUpload up to its await: the state it sets.
HandleUploadSync(l) == [l EXCEPT !.isUploading = TRUE, !.uploadProgress = 0, !.error = JNull]

\* handleUpload up to its await: the interval it starts and the request it sends.
StartedSlot == [pc |-> "awaiting", live |-> TRUE, interval |-> TRUE,
                reqs |-> <<Sent(UploadReportCall).path>>, result |-> "none", onUploadCalls |-> 0]

\* validateAndSetFile: the state it leaves and whether it called handleUpload.
validateAndSetFile(l, file) ==
    IF file.type \notin validTypes
    THEN [l |-> [l EXCEPT !.error = InvalidTypeError], upload |-> FALSE]
    ELSE IF FileTooLarge(file)
    THEN [l |-> [l EXCEPT !.error = TooLargeError], upload |-> FALSE]
    ELSE [l |-> HandleUploadSync([l EXCEPT !.selectedFile = file]), upload |-> TRUE]

\* err.message.includes('fetch'), on the messages of the model.
IncludesFetch(message) == message \in {"Failed to fetch",
                                       "NetworkError when attempting to fetch resource.",
                                       "could not fetch the record"}

\* The catch block of handleUpload: the message it shows for what was thrown.
CatchMessage(err) == IF err.name = "TypeError" /\ IncludesFetch(err.message) THEN CannotConnect
                     ELSE IF IsError(err) THEN err.message
                     ELSE UploadFallback

\* A handleUpload that does not look at response.success.
UploadResult_IgnoresSuccess(reply) ==
    IF Request(reply).state = "rejected"
    THEN [resolved |-> FALSE, success |-> FALSE, thrown |-> Request(reply).error]
    ELSE [resolved |-> TRUE, success |-> TRUE, thrown |-> Thrown("", "")]

\* handleUpload after its await, for a reply: whether the await resolved (and
\* the interval was cleared), whether onUpload was scheduled, what was thrown.
UploadResult(reply) ==
    LET out == Request(reply)
    IN  IF out.state = "rejected"
        THEN [resolved |-> FALSE, success |-> FALSE, thrown |-> out.error]
        ELSE IF out.value.kind = "null"
        THEN [resolved |-> TRUE, success |-> FALSE,
              thrown |-> Thrown("TypeError", "Cannot read properties of null (reading 'success')")]
        ELSE IF Truthy(Get(out.value, "success"))
        THEN [resolved |-> TRUE, success |-> TRUE, thrown |-> Thrown("", "")]
        ELSE [resolved |-> TRUE, success |-> FALSE,
              thrown |-> Thrown("Error", Or(Or(Get(out.value, "message"), Get(out.value, "suggestion")),
                                            "Upload failed"))]

\* The state handleUpload leaves after its await.
AfterUpload(l, res) ==
    IF res.success
    THEN [l EXCEPT !.uploadProgress = 100, !.isUploading = FALSE]
    ELSE [l EXCEPT !.error = CatchMessage(res.thrown), !.selectedFile = NoFile,
                   !.uploadProgress = 0, !.isUploading = FALSE]

\* The call of handleUpload after its await: on success the interval is
\* cleared and the timer set; a rejected await skips clearInterval.
SettledSlot(s, res) ==
    IF res.success
    THEN [s EXCEPT !.pc = "timer", !.interval = FALSE, !.result = "success"]
    ELSE [s EXCEPT !.pc = "done", !.interval = IF res.resolved THEN FALSE ELSE s.interval,
                   !.result = "failure"]

Min(a, b) == IF a < b THEN a ELSE b

(***************************************************************************)
(* ReportOverview                                                          *)
(***************************************************************************)
\* The scores a backend may put in a report.
Scores == {-5, 0, 72, 100, 150}
ReportBody(s) == JObject([report_id |-> "r1", health_clarity_score |-> [score |-> s]])

LatestReplies ==
    {[net |-> "error", message |-> "Failed to fetch", status |-> 0, body |-> Unparseable],
     [net |-> "ok", message |-> "", status |-> 404, body |-> JObject([detail |-> "No reports found"])],
     [net |-> "ok", message |-> "", status |-> 500, body |-> Unparseable],
     [net |-> "ok", message |-> "", status |-> 200, body |-> JNullBody]}
    \cup {[net |-> "ok", message |-> "", status |-> 200, body |-> ReportBody(s)] : s \in Scores}

\* One call of a screen's load function: idle or awaiting its request, the
\* paths requested by the current call, and how the last call ended.
IdleCall == [pc |-> "idle", reqs |-> <<>>, result |-> "none"]
AwaitingCall(c) == [pc |-> "awaiting", reqs |-> <<Sent(c).path>>, result |-> "none"]

\* useState initial values; reportData null is the null body.
OverviewUnmounted == [reportData |-> JNullBody, isLoading |-> TRUE, error |-> JNull, call |-> IdleCall]

\* loadReport up to its await.
LoadReportStart(o) == [o EXCEPT !.isLoading = TRUE, !.call = AwaitingCall(GetLatestReportCall)]

\* The mount: the initial state, then the effect calls loadReport.
OverviewMounted == LoadReportStart(OverviewUnmounted)

\* loadReport after its await, for a reply.
LoadReportSettled(o, reply) ==
    LET out == Request(reply)
    IN  IF out.state = "resolved"
        THEN [o EXCEPT !.reportData = out.value, !.isLoading = FALSE,
                       !.call = [o.call EXCEPT !.pc = "idle", !.result = "success"]]
        ELSE [o EXCEPT !.error = IF IsError(out.error) THEN out.error.message ELSE "Failed to load report",
                       !.isLoading = FALSE,
                       !.call = [o.call EXCEPT !.pc = "idle", !.result = "failure"]]

\* Which of its three returns ReportOverview renders.
OverviewView(o) == IF o.isLoading THEN "loading"
                   ELSE IF Truthy(o.error) \/ o.reportData.kind = "null" THEN "error"
                   ELSE "report"

\* A score card that clamps the score to 0..100.
healthClarityScore_Clamped(o) ==
    LET s == o.reportData.fields["health_clarity_score"].score
    IN  IF s < 0 THEN 0 ELSE IF s > 100 THEN 100 ELSE s

\* The number shown in the Health Clarity Score card.
healthClarityScore(o) == o.reportData.fields["health_clarity_score"].score

(***************************************************************************)
(* TrendsView                                                              *)
(***************************************************************************)
Point(v, lo, hi) == [value |-> v, refLow |-> lo, refHigh |-> hi]
Trend(points) == [hasDataPoints |-> TRUE, data_points |-> points]
ScorePoint(d, s) == [date |-> d, score |-> s]

\* The score histories, parameter maps and parameter lists a backend may send.
ScoreHistories == {<<>>,
                   <<ScorePoint("2024-01-15", 70), ScorePoint("2024-02-10", 78)>>,
                   <<ScorePoint("2024-02-10", 78), ScorePoint("2024-01-15", 70)>>,
                   <<ScorePoint("2024-01-15", 150), ScorePoint("2024-02-10", -5)>>}
ParameterMaps == {[k \in {} |-> Trend(<<>>)],
                  [k \in {"hemoglobin"} |-> Trend(<<Point(3, 1, 2), Point(0, 1, 2)>>)],
                  [k \in {"glucose"} |-> Trend(<<Point(0, 1, 2)>>)],
                  [k \in {"hemoglobin", "glucose"} |->
                      IF k = "glucose" THEN Trend(<<Point(3, 1, 2)>>)
                      ELSE [hasDataPoints |-> FALSE, data_points |-> <<>>]]}
ParameterLists == {[has |-> FALSE, list |-> <<>>],
                   [has |-> TRUE, list |-> <<>>],
                   [has |-> TRUE, list |-> <<"glucose", "hemoglobin">>],
                   [has |-> TRUE, list |-> <<"wbc">>]}
TrendBody(h, p, a) == JObject([health_score_trend |-> h, parameter_trends |-> p,
                               available_parameters |-> a])

TrendsReplies ==
    {[net |-> "error", message |-> "Failed to fetch", status |-> 0, body |-> Unparseable],
     [net |-> "ok", message |-> "", status |-> 500, body |-> JObject([detail |-> "Trend service unavailable"])],
     [net |-> "ok", message |-> "", status |-> 200, body |-> JNullBody]}
    \cup {[net |-> "ok", message |-> "", status |-> 200,
            body |-> TrendBody(h, [k \in {} |-> Trend(<<>>)], [has |-> TRUE, list |-> <<>>])] :
             h \in ScoreHistories}
    \cup {[net |-> "ok", message |-> "", status |-> 200, body |-> TrendBody(<<>>, p, a)] :
             p \in ParameterMaps, a \in ParameterLists}

\* useState initial values.
TrendsUnmounted == [selectedParameter |-> "hemoglobin", trendData |-> JNullBody,
                    isLoading |-> TRUE, call |-> IdleCall]

\* loadTrends up to its await; api.getTrends() is called without a parameter.
LoadTrendsStart(t) == [t EXCEPT !.isLoading = TRUE, !.call = AwaitingCall(GetTrendsCall(NoArg))]

\* The mount: the initial state, then the effect calls loadTrends.
TrendsMounted == LoadTrendsStart(TrendsUnmounted)

\* loadTrends after its await, for a reply.  A null body makes the read of
\* data.available_parameters throw, after setTrendData; a failure is logged
\* to the console only.
LoadTrendsSettled(t, reply) ==
    LET out == Request(reply)
    IN  IF out.state = "rejected"
        THEN [t EXCEPT !.isLoading = FALSE,
                       !.call = [t.call EXCEPT !.pc = "idle", !.result = "failure"]]
        ELSE IF out.value.kind = "null"
        THEN [t EXCEPT !.trendData = out.value, !.isLoading = FALSE,
                       !.call = [t.call EXCEPT !.pc = "idle", !.result = "failure"]]
        ELSE LET avail == out.value.fields["available_parameters"]
             IN  [t EXCEPT !.trendData = out.value,
                           !.selectedParameter = IF avail.has /\ Len(avail.list) > 0
                                                 THEN avail.list[1] ELSE t.selectedParameter,
                           !.isLoading = FALSE,
                           !.call = [t.call EXCEPT !.pc = "idle", !.result = "success"]]

\* trendData?.health_score_trend || []: the series the score chart plots.
healthScoreData(t) == IF t.trendData.kind = "null" THEN <<>>
                      ELSE t.trendData.fields["health_score_trend"]

\* trendData?.parameter_trends || {}
parameterTrends(t) == IF t.trendData.kind = "null" THEN [k \in {} |-> Trend(<<>>)]
                      ELSE t.trendData.fields["parameter_trends"]

\* Object.keys(parameterTrends)
availableParams(t) == DOMAIN parameterTrends(t)

\* The `parameters` list: each key with its status.
parameters(t) == [k \in availableParams(t) |-> StatusOf(parameterTrends(t)[k])]

(***************************************************************************)
(* App: the current screen and the screens it mounts                       *)
(***************************************************************************)
navigationItems_WithHome == {"home", "overview", "parameters", "trends", "timeline", "explanations"}

navigationItems == {"overview", "parameters", "trends", "timeline", "explanations"}

showNavigation == currentScreen \notin {"splash", "home", "landing", "processing"}

\* How often React may call a component's function for one mount: once, or
\* more (a development build under StrictMode calls it twice).
MaxRenders == 2

\* The onComplete timers pending once ProcessingScreen has mounted, with
\* `timers` pending before.  The component of components/ProcessingScreen.tsx
\* calls setTimeout in its function body, once per call of the function; the
\* step-based component sets one timer in an effect.
ProcessingMounted(timers) ==
    IF processingImpl = "steps" THEN {1}
    ELSE {timers + r : r \in 1..MaxRenders} \cap 0..MaxRenders

\* The onComplete timers pending once ProcessingScreen has unmounted: the
\* step-based component's cleanup clears its timer, the other has no cleanup.
ProcessingUnmounted(timers) == IF processingImpl = "steps" THEN 0 ELSE timers

\* setCurrentScreen(to), with calls the uploads and timers the pending
\* onComplete timers after the handler's own changes.  Setting the screen it
\* already has re-renders nothing.  Otherwise the old screen unmounts (its
\* state is dropped; the calls of an unmounted LandingScreen go on, without
\* a component to update) and the new one mounts (ProcessingScreen sets its
\* completion timer, ReportOverview and TrendsView start loading).
Navigate(to, calls, timers) ==
    /\ currentScreen' = to
    /\ IF to = currentScreen
       THEN /\ uploads' = calls
            /\ procTimer' = timers
            /\ UNCHANGED <<landing, dialogOpen, overview, trends>>
       ELSE /\ uploads' = IF currentScreen = "landing"
                          THEN [i \in DOMAIN calls |-> [calls[i] EXCEPT !.live = FALSE]]
                          ELSE calls
            /\ landing' = LandingInit
            /\ dialogOpen' = FALSE
            /\ overview' = IF to = "overview" THEN OverviewMounted ELSE OverviewUnmounted
            /\ trends' = IF to = "trends" THEN TrendsMounted ELSE TrendsUnmounted
            /\ procTimer' \in IF to = "processing" THEN ProcessingMounted(timers)
                             ELSE IF currentScreen = "processing" THEN {ProcessingUnmounted(timers)}
                             ELSE {timers}

setCurrentScreen(to, calls) == Navigate(to, calls, procTimer)

\* SplashScreen's timer fires: onComplete.
SplashComplete ==
    /\ root = "App"
    /\ currentScreen = "splash" /\ splashTimer
    /\ splashTimer' = FALSE
    /\ setCurrentScreen("home", uploads)
    /\ last' = NoEvent
    /\ UNCHANGED <<mobileMenuOpen>> /\ UNCHANGED restVars

\* HomeDecision: onUploadNew and onViewHistory.
HomeUploadNew ==
    /\ root = "App"
    /\ currentScreen = "home"
    /\ setCurrentScreen("landing", uploads)
    /\ last' = NoEvent
    /\ UNCHANGED <<mobileMenuOpen, splashTimer>> /\ UNCHANGED restVars

HomeViewHistory ==
    /\ root = "App"
    /\ currentScreen = "home"
    /\ setCurrentScreen("overview", uploads)
    /\ last' = NoEvent
    /\ UNCHANGED <<mobileMenuOpen, splashTimer>> /\ UNCHANGED restVars

\* A button of the desktop navigation.
NavClick ==
    /\ root = "App"
    /\ showNavigation
    /\ \E item \in navigationItems : setCurrentScreen(item, uploads)
    /\ last' = NoEvent
    /\ UNCHANGED <<mobileMenuOpen, splashTimer>> /\ UNCHANGED restVars

\* "+ New Report"
NewReportClick ==
    /\ root = "App"
    /\ showNavigation
    /\ setCurrentScreen("landing", uploads)
    /\ last' = NoEvent
    /\ UNCHANGED <<mobileMenuOpen, splashTimer>> /\ UNCHANGED restVars

\* The mobile menu button.
ToggleMobileMenu ==
    /\ root = "App"
    /\ showNavigation
    /\ mobileMenuOpen' = ~mobileMenuOpen
    /\ last' = NoEvent
    /\ UNCHANGED <<currentScreen, splashTimer, procTimer, landing, dialogOpen, uploads, overview, trends>>
    /\ UNCHANGED restVars

\* A button of the mobile navigation.
MobileNavClick ==
    /\ root = "App"
    /\ showNavigation /\ mobileMenuOpen
    /\ \E item \in navigationItems : setCurrentScreen(item, uploads)
    /\ mobileMenuOpen' = FALSE
    /\ last' = NoEvent
    /\ UNCHANGED <<splashTimer>> /\ UNCHANGED restVars

\* ReportOverview's onNavigate buttons, shown with the report.
OverviewNavigate ==
    /\ root = "App"
    /\ currentScreen = "overview" /\ OverviewView(overview) = "report"
    /\ \E view \in {"trends", "explanations", "parameters"} : setCurrentScreen(view, uploads)
    /\ last' = NoEvent
    /\ UNCHANGED <<mobileMenuOpen, splashTimer>> /\ UNCHANGED restVars

\* onBack of ParameterDetails, TrendsView (once loaded), ActionTimeline and
\* ExplanationPanel.
Back ==
    /\ root = "App"
    /\ currentScreen \in {"parameters", "trends", "timeline", "explanations"}
    /\ currentScreen = "trends" => ~trends.isLoading
    /\ setCurrentScreen("overview", uploads)
    /\ last' = NoEvent
    /\ UNCHANGED <<mobileMenuOpen, splashTimer>> /\ UNCHANGED restVars

\* A timer of ProcessingScreen fires: onComplete, which is App's
\* setCurrentScreen('overview').
ProcessingComplete ==
    /\ root = "App"
    /\ procTimer > 0
    /\ Navigate("overview", uploads, procTimer - 1)
    /\ last' = Event("onComplete", NoFile, 0, NoReply)
    /\ UNCHANGED <<mobileMenuOpen, splashTimer>> /\ UNCHANGED restVars

(***************************************************************************)
(* LandingScreen's handlers                                                *)
(***************************************************************************)
LandingFrame == UNCHANGED <<currentScreen, mobileMenuOpen, splashTimer, procTimer, overview, trends>>
                /\ UNCHANGED restVars

handleDragOver ==
    /\ root = "App"
    /\ currentScreen = "landing" /\ ~dialogOpen
    /\ landing' = [landing EXCEPT !.isDragging = TRUE]
    /\ last' = NoEvent
    /\ UNCHANGED <<dialogOpen, uploads>> /\ LandingFrame

handleDragLeave ==
    /\ root = "App"
    /\ currentScreen = "landing" /\ ~dialogOpen
    /\ landing' = [landing EXCEPT !.isDragging = FALSE]
    /\ last' = NoEvent
    /\ UNCHANGED <<dialogOpen, uploads>> /\ LandingFrame

\* The state and calls after validateAndSetFile(f) on state l (f = NoFile: no
\* file came with the event).
Selected(l, f, act) ==
    LET r == IF f = NoFile THEN [l |-> l, upload |-> FALSE] ELSE validateAndSetFile(l, f)
    IN  /\ r.upload => HasFreeSlot
        /\ landing' = r.l
        /\ uploads' = IF r.upload THEN [uploads EXCEPT ![FreeSlot] = StartedSlot] ELSE uploads
        /\ last' = Event(act, f, IF r.upload THEN FreeSlot ELSE 0, NoReply)

\* A drop on the drop zone.
handleDrop ==
    /\ root = "App"
    /\ currentScreen = "landing" /\ ~dialogOpen
    /\ \E f \in Files \cup {NoFile} :
          Selected([landing EXCEPT !.isDragging = FALSE, !.error = JNull], f, "handleDrop")
    /\ UNCHANGED dialogOpen /\ LandingFrame

\* A click on the drop zone opens the file dialog unless an upload runs.
handleClick ==
    /\ root = "App"
    /\ currentScreen = "landing" /\ ~dialogOpen
    /\ ~landing.isUploading
    /\ dialogOpen' = TRUE
    /\ last' = NoEvent
    /\ UNCHANGED <<landing, uploads>> /\ LandingFrame

\* The file dialog closes with a choice: the input's onChange.
handleFileSelect ==
    /\ root = "App"
    /\ currentScreen = "landing" /\ dialogOpen
    /\ \E f \in Files \cup {NoFile} :
          Selected([landing EXCEPT !.error = JNull], f, "handleFileSelect")
    /\ dialogOpen' = FALSE
    /\ LandingFrame

\* The file dialog is cancelled.
CancelDialog ==
    /\ root = "App"
    /\ currentScreen = "landing" /\ dialogOpen
    /\ dialogOpen' = FALSE
    /\ last' = NoEvent
    /\ UNCHANGED <<landing, uploads>> /\ LandingFrame

\* The "Try again" link of the error message: setError(null).
DismissError ==
    /\ root = "App"
    /\ currentScreen = "landing" /\ ~dialogOpen
    /\ Truthy(landing.error)
    /\ landing' = [landing EXCEPT !.error = JNull]
    /\ last' = NoEvent
    /\ UNCHANGED <<dialogOpen, uploads>> /\ LandingFrame

\* A progress interval of a mounted LandingScreen ticks.
ProgressTick ==
    /\ root = "App"
    /\ \E i \in 1..MaxUploads : uploads[i].interval /\ uploads[i].live
    /\ landing' = [landing EXCEPT !.uploadProgress = Min(landing.uploadProgress + 10, 80)]
    /\ last' = NoEvent
    /\ UNCHANGED <<dialogOpen, uploads>> /\ LandingFrame

\* The upload request of call i settles: handleUpload runs to its end.
UploadSettled ==
    /\ root = "App"
    /\ \E i \in 1..MaxUploads : \E reply \in UploadReplies :
          /\ uploads[i].pc = "awaiting"
          /\ uploads' = [uploads EXCEPT ![i] = SettledSlot(uploads[i], UploadResult(reply))]
          /\ landing' = IF uploads[i].live THEN AfterUpload(landing, UploadResult(reply)) ELSE landing
          /\ last' = Event("handleUpload", NoFile, i, reply)
    /\ UNCHANGED dialogOpen /\ LandingFrame

\* The 500 ms timer of call i fires: onUpload, which is App's
\* setCurrentScreen('processing').
UploadTimerFire ==
    /\ root = "App"
    /\ \E i \in 1..MaxUploads :
          /\ uploads[i].pc = "timer"
          /\ setCurrentScreen("processing",
                 [uploads EXCEPT ![i] = [@ EXCEPT !.pc = "done", !.onUploadCalls = @ + 1]])
          /\ last' = Event("onUpload", NoFile, i, NoReply)
    /\ UNCHANGED <<mobileMenuOpen, splashTimer>> /\ UNCHANGED restVars

(***************************************************************************)
(* ReportOverview's and TrendsView's handlers                              *)
(***************************************************************************)
ScreenFrame == UNCHANGED <<currentScreen, mobileMenuOpen, splashTimer, procTimer,
                           landing, dialogOpen, uploads>>
               /\ UNCHANGED restVars

\* The request of loadReport settles.
LoadReportReply ==
    /\ root = "App"
    /\ currentScreen = "overview" /\ overview.call.pc = "awaiting"
    /\ \E reply \in LatestReplies :
          /\ overview' = LoadReportSettled(overview, reply)
          /\ last' = Event("loadReport", NoFile, 0, reply)
    /\ UNCHANGED trends /\ ScreenFrame

\* "Try Again": loadReport.
TryAgain ==
    /\ root = "App"
    /\ currentScreen = "overview" /\ OverviewView(overview) = "error"
    /\ overview' = LoadReportStart(overview)
    /\ last' = NoEvent
    /\ UNCHANGED trends /\ ScreenFrame

\* The request of loadTrends settles.
LoadTrendsReply ==
    /\ root = "App"
    /\ currentScreen = "trends" /\ trends.call.pc = "awaiting"
    /\ \E reply \in TrendsReplies :
          /\ trends' = LoadTrendsSettled(trends, reply)
          /\ last' = Event("loadTrends", NoFile, 0, reply)
    /\ UNCHANGED overview /\ ScreenFrame

\* A parameter tab: setSelectedParameter(param.id).
SelectParameter ==
    /\ root = "App"
    /\ currentScreen = "trends" /\ ~trends.isLoading
    /\ \E k \in availableParams(trends) : trends' = [trends EXCEPT !.selectedParameter = k]
    /\ last' = NoEvent
    /\ UNCHANGED overview /\ ScreenFrame

AppInit == /\ currentScreen = "splash"
           /\ mobileMenuOpen = FALSE
           /\ splashTimer = TRUE
           /\ procTimer = 0
           /\ landing = LandingInit
           /\ dialogOpen = FALSE
           /\ uploads = [i \in 1..MaxUploads |-> UnusedSlot]
           /\ overview = OverviewUnmounted
           /\ trends = TrendsUnmounted
           /\ last = NoEvent

(***************************************************************************)
(* ReportProvider                                                          *)
(***************************************************************************)
MaxCalls == 2

\* useState initial values; null data is the null body.
ProviderInit == [currentReport |-> JNullBody, trendData |-> JNullBody, timelineData |-> JNullBody,
                 isLoading |-> FALSE, error |-> JNull, uploadProgress |-> 0, hasReports |-> TRUE]

\* What the backend (or the network) answers to the provider's requests.
NetworkDown == [net |-> "error", message |-> "Failed to fetch", status |-> 0, body |-> Unparseable]
ServerError == [net |-> "ok", message |-> "", status |-> 500, body |-> JObject([detail |-> "Internal error"])]
OkReply(b) == [net |-> "ok", message |-> "", status |-> 200, body |-> b]
TimelineBody == JObject([severity_level |-> "moderate", disclaimer |-> "Educational only"])
ProviderReplies(path) ==
    CASE path = "/reports/upload" ->
             {NetworkDown, ServerError,
              OkReply(JObject([success |-> JTrue, message |-> "Report processed"])),
              OkReply(JObject([success |-> JFalse, message |-> "OCR confidence too low"])),
              OkReply(JObject([success |-> JFalse])),
              OkReply(JNullBody)}
      [] path = "/reports/latest" -> {NetworkDown, ServerError, OkReply(ReportBody(72)), OkReply(ReportBody(150))}
      [] path = "/reports/trends/data" ->
             {NetworkDown, ServerError,
              OkReply(TrendBody(<<ScorePoint("2024-01-15", 70)>>, [k \in {} |-> Trend(<<>>)], [has |-> TRUE, list |-> <<>>]))}
      [] OTHER -> {NetworkDown, ServerError, OkReply(TimelineBody)}

\* One call of a provider action: the action, where it is, the response of
\* its upload once received, the paths it has requested, how the try block
\* ended, and the promise it returned.
UnusedCall == [action |-> "none", pc |-> "unused", response |-> JNullBody, reqs |-> <<>>,
               result |-> "none", promise |-> "none"]

HasFreeCall == \E i \in 1..MaxCalls : pcalls[i].pc = "unused"
FreeCall == CHOOSE i \in 1..MaxCalls :
                /\ pcalls[i].pc = "unused"
                /\ \A j \in 1..(i - 1) : pcalls[j].pc # "unused"

\* The request a load action sends.
LoadCall(action, parameter) == CASE action = "loadLatestReport" -> GetLatestReportCall
                                 [] action = "loadTrends" -> GetTrendsCall(parameter)
                                 [] action = "loadTimeline" -> GetTimelineCall

\* The fallback message of each action's catch block.
CatchFallback(action) == CASE action = "uploadReport" -> "Failed to upload report"
                           [] action = "loadLatestReport" -> "Failed to load report"
                           [] action = "loadTrends" -> "Failed to load trends"
                           [] action = "loadTimeline" -> "Failed to load timeline"

\* catch (err): the message set as error.
ProviderMessage(action, err) == IF IsError(err) THEN err.message ELSE CatchFallback(action)

\* A catch block without the finally block: isLoading is left as it is.
Caught_KeepsLoading(p, action, err) == [p EXCEPT !.error = ProviderMessage(action, err)]

\* The catch and finally blocks of an action, for the value thrown.
\* uploadReport rethrows; the load actions do not.
Caught(p, action, err) == [p EXCEPT !.error = ProviderMessage(action, err), !.isLoading = FALSE]

\* A call that sends its failed request once more before giving up.
CaughtCall_Retry(c) == [c EXCEPT !.pc = "done", !.result = "failure",
                                 !.promise = IF c.action = "uploadReport" THEN "rejected" ELSE "resolved",
                                 !.reqs = Append(c.reqs, c.reqs[Len(c.reqs)])]

\* The call after its catch and finally blocks.
CaughtCall(c) == [c EXCEPT !.pc = "done", !.result = "failure",
                           !.promise = IF c.action = "uploadReport" THEN "rejected" ELSE "resolved"]

\* A load action that starts from empty data: it resets the other two fields.
Loaded_ResetsOthers(p, action, v) ==
    LET empty == [p EXCEPT !.currentReport = JNullBody, !.trendData = JNullBody,
                           !.timelineData = JNullBody, !.isLoading = FALSE]
    IN  CASE action = "loadLatestReport" -> [empty EXCEPT !.currentReport = v, !.hasReports = TRUE]
          [] action = "loadTrends" -> [empty EXCEPT !.trendData = v]
          [] action = "loadTimeline" -> [empty EXCEPT !.timelineData = v]

\* A load action's try block after its await resolved with body v.
Loaded(p, action, v) ==
    CASE action = "loadLatestReport" -> [p EXCEPT !.currentReport = v, !.hasReports = TRUE, !.isLoading = FALSE]
      [] action = "loadTrends" -> [p EXCEPT !.trendData = v, !.isLoading = FALSE]
      [] action = "loadTimeline" -> [p EXCEPT !.timelineData = v, !.isLoading = FALSE]

ProviderFrame == UNCHANGED <<currentScreen, mobileMenuOpen, splashTimer, procTimer,
                             landing, dialogOpen, uploads, overview, trends>>
                 /\ UNCHANGED fnVars /\ UNCHANGED <<root, processingImpl, processing>>

\* uploadReport(file) up to its first await (the 200 ms timer).
CallUploadReport ==
    /\ root = "ReportProvider"
    /\ HasFreeCall
    /\ provider' = [provider EXCEPT !.isLoading = TRUE, !.error = JNull, !.uploadProgress = 10]
    /\ pcalls' = [pcalls EXCEPT ![FreeCall] =
                     [UnusedCall EXCEPT !.action = "uploadReport", !.pc = "delay200", !.promise = "pending"]]
    /\ last' = Event("call", NoFile, FreeCall, NoReply)
    /\ ProviderFrame

\* The 200 ms timer: the upload request is sent.
UploadDelay200 ==
    /\ root = "ReportProvider"
    /\ \E i \in 1..MaxCalls :
          /\ pcalls[i].pc = "delay200"
          /\ provider' = [provider EXCEPT !.uploadProgress = 30]
          /\ pcalls' = [pcalls EXCEPT ![i] = [@ EXCEPT !.pc = "upload",
                                                        !.reqs = Append(@, Sent(UploadReportCall).path)]]
          /\ last' = Event("uploadReport", NoFile, i, NoReply)
    /\ ProviderFrame

\* The upload request settles.
UploadReply ==
    /\ root = "ReportProvider"
    /\ \E i \in 1..MaxCalls : \E reply \in ProviderReplies("/reports/upload") :
          /\ pcalls[i].pc = "upload"
          /\ last' = Event("uploadReport", NoFile, i, reply)
          /\ LET out == Request(reply)
             IN  IF out.state = "rejected"
                 THEN /\ provider' = Caught(provider, "uploadReport", out.error)
                      /\ pcalls' = [pcalls EXCEPT ![i] = CaughtCall(@)]
                 ELSE /\ provider' = [provider EXCEPT !.uploadProgress = 70]
                      /\ pcalls' = [pcalls EXCEPT ![i] = [@ EXCEPT !.pc = "delay300", !.response = out.value]]
    /\ ProviderFrame

\* The 300 ms timer: response.success is read; on success the latest report
\* is requested, otherwise the call throws.
UploadDelay300 ==
    /\ root = "ReportProvider"
    /\ \E i \in 1..MaxCalls :
          /\ pcalls[i].pc = "delay300"
          /\ last' = Event("uploadReport", NoFile, i, NoReply)
          /\ LET response == pcalls[i].response
             IN  IF response.kind = "null"
                 THEN /\ provider' = Caught(provider, "uploadReport",
                                            Thrown("TypeError", "Cannot read properties of null (reading 'success')"))
                      /\ pcalls' = [pcalls EXCEPT ![i] = CaughtCall(@)]
                 ELSE IF Truthy(Get(response, "success"))
                 THEN /\ provider' = [provider EXCEPT !.uploadProgress = 90]
                      /\ pcalls' = [pcalls EXCEPT ![i] = [@ EXCEPT !.pc = "latest",
                                                                    !.reqs = Append(@, Sent(GetLatestReportCall).path)]]
                 ELSE /\ provider' = Caught(provider, "uploadReport",
                                            Thrown("Error", Or(Get(response, "message"), "Upload failed")))
                      /\ pcalls' = [pcalls EXCEPT ![i] = CaughtCall(@)]
    /\ ProviderFrame

\* The getLatestReport request of uploadReport settles.
UploadLatestReply ==
    /\ root = "ReportProvider"
    /\ \E i \in 1..MaxCalls : \E reply \in ProviderReplies("/reports/latest") :
          /\ pcalls[i].pc = "latest"
          /\ last' = Event("uploadReport", NoFile, i, reply)
          /\ LET out == Request(reply)
             IN  IF out.state = "rejected"
                 THEN /\ provider' = Caught(provider, "uploadReport", out.error)
                      /\ pcalls' = [pcalls EXCEPT ![i] = CaughtCall(@)]
                 ELSE /\ provider' = [provider EXCEPT !.currentReport = out.value, !.hasReports = TRUE,
                                                       !.uploadProgress = 100, !.isLoading = FALSE]
                      /\ pcalls' = [pcalls EXCEPT ![i] = [@ EXCEPT !.pc = "done", !.result = "success",
                                                                    !.promise = "resolved"]]
    /\ ProviderFrame

\* loadLatestReport(), loadTrends(parameter) or loadTimeline() up to its await.
CallLoad ==
    /\ root = "ReportProvider"
    /\ HasFreeCall
    /\ \E action \in {"loadLatestReport", "loadTrends", "loadTimeline"} :
       \E parameter \in {NoArg, Given(<<"a">>)} :
          /\ action # "loadTrends" => parameter = NoArg
          /\ provider' = [provider EXCEPT !.isLoading = TRUE, !.error = JNull]
          /\ pcalls' = [pcalls EXCEPT ![FreeCall] =
                           [UnusedCall EXCEPT !.action = action, !.pc = "awaiting", !.promise = "pending",
                                              !.reqs = <<Sent(LoadCall(action, parameter)).path>>]]
          /\ last' = Event("call", NoFile, FreeCall, NoReply)
    /\ ProviderFrame

\* The request of a load action settles.
LoadReply ==
    /\ root = "ReportProvider"
    /\ \E i \in 1..MaxCalls :
          /\ pcalls[i].pc = "awaiting"
          /\ \E reply \in ProviderReplies(pcalls[i].reqs[1]) :
                LET out == Request(reply)
                IN  /\ last' = Event(pcalls[i].action, NoFile, i, reply)
                    /\ IF out.state = "rejected"
                       THEN /\ provider' = Caught(provider, pcalls[i].action, out.error)
                            /\ pcalls' = [pcalls EXCEPT ![i] = CaughtCall(@)]
                       ELSE /\ provider' = Loaded(provider, pcalls[i].action, out.value)
                            /\ pcalls' = [pcalls EXCEPT ![i] = [@ EXCEPT !.pc = "done", !.result = "success",
                                                                          !.promise = "resolved"]]
    /\ ProviderFrame

\* clearError()
clearError ==
    /\ root = "ReportProvider"
    /\ provider.error # JNull
    /\ provider' = [provider EXCEPT !.error = JNull]
    /\ last' = NoEvent
    /\ UNCHANGED pcalls
    /\ ProviderFrame


(***************************************************************************)
(* ProcessingScreen with steps: the progress bar, the step list and the    *)
(* completion timer, on the clock of the timers                            *)
(***************************************************************************)
MaxReruns == 1

\* The durations of PROCESSING_STEPS, in milliseconds.
PROCESSING_STEPS == <<800, 1000, 800, 600>>

RECURSIVE SumTo(_, _)
SumTo(ds, n) == IF n = 0 THEN 0 ELSE SumTo(ds, n - 1) + ds[n]

\* durations.reduce((a, b) => a + b, 0)
totalDuration == SumTo(PROCESSING_STEPS, Len(PROCESSING_STEPS))

\* The delay of step index (0-based): totalTime when its timer is set.
StepDelay(index) == SumTo(PROCESSING_STEPS, index)

\* A timer that is not pending: never set, fired or cleared.
Cleared == -1

\* The step timers one run of the effect sets; `in` is the time left.
StepTimers(run) == {[in |-> StepDelay(index), index |-> index, run |-> run] :
                       index \in 0..(Len(PROCESSING_STEPS) - 1)}

\* The screen after its first render and the first run of its effect.
StepsMounted == [mounted |-> TRUE, currentStep |-> 0, progress |-> 0,
                 interval |-> totalDuration \div 50,
                 stepTimers |-> StepTimers(0),
                 timeout |-> totalDuration + 500,
                 reruns |-> 0, completed |-> 0]

StepsUnrendered == [mounted |-> FALSE, currentStep |-> 0, progress |-> 0,
                    interval |-> Cleared, stepTimers |-> {}, timeout |-> Cleared,
                    reruns |-> 0, completed |-> 0]

\* The times left on the pending timers.
PendingTimes == {t.in : t \in processing.stepTimers}
                    \cup ({processing.interval, processing.timeout} \ {Cleared})

StepsFrame == UNCHANGED fnVars /\ UNCHANGED appVars
              /\ UNCHANGED <<root, provider, pcalls, processingImpl>>

\* Time passes until the next timer is due.
TimePasses ==
    /\ root = "ProcessingScreen"
    /\ PendingTimes # {} /\ 0 \notin PendingTimes
    /\ LET d == CHOOSE x \in PendingTimes : \A y \in PendingTimes : x <= y
           Left(x) == IF x = Cleared THEN Cleared ELSE x - d
       IN  processing' = [processing EXCEPT
               !.interval = Left(@), !.timeout = Left(@),
               !.stepTimers = {[t EXCEPT !.in = @ - d] : t \in @}]
    /\ StepsFrame

\* progressInterval's callback: the updater of setProgress.
ProgressIntervalTick ==
    /\ root = "ProcessingScreen"
    /\ processing.interval = 0
    /\ processing' = IF processing.progress >= 100
                     THEN [processing EXCEPT !.progress = 100, !.interval = Cleared]
                     ELSE [processing EXCEPT !.progress = @ + 2,
                                             !.interval = totalDuration \div 50]
    /\ StepsFrame

\* A step timer's callback: setCurrentStep(index). The cleanup does not clear
\* these timers; on an unmounted screen the update is dropped.
StepTimeout ==
    /\ root = "ProcessingScreen"
    /\ \E t \in processing.stepTimers :
          /\ t.in = 0
          /\ processing' = [processing EXCEPT
                 !.stepTimers = @ \ {t},
                 !.currentStep = IF processing.mounted THEN t.index ELSE @]
    /\ StepsFrame

\* The completion timer's callback: onComplete().
CompleteTimeout ==
    /\ root = "ProcessingScreen"
    /\ processing.timeout = 0
    /\ processing' = [processing EXCEPT !.timeout = Cleared, !.completed = @ + 1]
    /\ StepsFrame

EffectRerun_ResetsProgress ==
    /\ root = "ProcessingScreen"
    /\ processing.mounted /\ processing.reruns < MaxReruns
    /\ processing' = [processing EXCEPT
           !.progress = 0,
           !.interval = totalDuration \div 50,
           !.stepTimers = @ \cup StepTimers(processing.reruns + 1),
           !.timeout = totalDuration + 500,
           !.reruns = @ + 1]
    /\ StepsFrame

\* The parent renders the screen with a new onComplete: the cleanup of the
\* effect runs and then the effect, on the state as it is.
EffectRerun ==
    /\ root = "ProcessingScreen"
    /\ processing.mounted /\ processing.reruns < MaxReruns
    /\ processing' = [processing EXCEPT
           !.interval = totalDuration \div 50,
           !.stepTimers = @ \cup StepTimers(processing.reruns + 1),
           !.timeout = totalDuration + 500,
           !.reruns = @ + 1]
    /\ StepsFrame

\* The parent unmounts the screen: the cleanup of the effect.
StepsUnmount ==
    /\ root = "ProcessingScreen"
    /\ processing.mounted
    /\ processing' = [processing EXCEPT
           !.mounted = FALSE, !.interval = Cleared, !.timeout = Cleared]
    /\ StepsFrame

(***************************************************************************)
(* Specifications                                                          *)
(***************************************************************************)
\* Nothing is rendered.
Unrendered == /\ root = "none"
              /\ processingImpl = "none"
              /\ processing = StepsUnrendered
              /\ provider = ProviderInit
              /\ pcalls = [i \in 1..MaxCalls |-> UnusedCall]

\* The functions on drawn inputs; nothing is rendered.
FnInit == FnInputs /\ AppInit /\ Unrendered

FnSpec == FnInit /\ [][FnNext]_vars

\* What is rendered is the App, or a tree under a ReportProvider (App does
\* not render one): each from its first render.
Init == /\ fn = "none" /\ fnIn = NoOut /\ fnOut = NoOut
        /\ AppInit
        /\ \/ root = "App" /\ processingImpl \in {"timeout", "steps"}
           \/ root = "ReportProvider" /\ processingImpl = "none"
        /\ processing = StepsUnrendered
        /\ provider = ProviderInit
        /\ pcalls = [i \in 1..MaxCalls |-> UnusedCall]

Next == \/ SplashComplete \/ HomeUploadNew \/ HomeViewHistory
        \/ NavClick \/ NewReportClick \/ ToggleMobileMenu \/ MobileNavClick
        \/ OverviewNavigate \/ Back \/ ProcessingComplete
        \/ handleDragOver \/ handleDragLeave \/ handleDrop \/ handleClick
        \/ handleFileSelect \/ CancelDialog \/ DismissError
        \/ ProgressTick \/ UploadSettled \/ UploadTimerFire
        \/ LoadReportReply \/ TryAgain \/ LoadTrendsReply \/ SelectParameter
        \/ CallUploadReport \/ UploadDelay200 \/ UploadReply \/ UploadDelay300
        \/ UploadLatestReply \/ CallLoad \/ LoadReply \/ clearError

Spec == Init /\ [][Next]_vars

\* SplashScreen's effect arms a 2500 ms timer when the screen mounts and
\* clears it only when the screen unmounts; nothing re-renders App while the
\* splash screen is shown, so the timer is not re-armed and does fire.
LiveSpec == Spec /\ WF_vars(SplashComplete)

\* The ProcessingScreen with steps on its own, from its mount.
StepsInit == /\ fn = "none" /\ fnIn = NoOut /\ fnOut = NoOut
             /\ AppInit
             /\ root = "ProcessingScreen" /\ processingImpl = "steps"
             /\ processing = StepsMounted
             /\ provider = ProviderInit
             /\ pcalls = [i \in 1..MaxCalls |-> UnusedCall]

StepsNext == \/ TimePasses \/ ProgressIntervalTick \/ StepTimeout
             \/ CompleteTimeout \/ EffectRerun \/ StepsUnmount

StepsSpec == StepsInit /\ [][StepsNext]_vars

(***************************************************************************)
(* Properties of the screens and the provider (checked under Spec)         *)
(***************************************************************************)
\* A reply that is an API failure: a network error or a non-2xx status.
ApiFailed(reply) == \/ reply.net = "error"
                    \/ reply.net = "ok" /\ reply.status \notin 200..299

\* C1: whenever an API call of a screen fails, the screen ends with a
\* non-null error string in its own state: LandingScreen.handleUpload,
\* ReportOverview.loadReport and TrendsView.loadTrends alike.
C1_FailureSetsError ==
    /\ (last.act = "handleUpload" /\ ApiFailed(last.reply) /\ uploads[last.slot].live)
          => landing.error # JNull
    /\ (last.act = "loadReport" /\ ApiFailed(last.reply))
          => overview.error # JNull
    /\ (root = "App" /\ last.act = "loadTrends" /\ ApiFailed(last.reply))
          => ("error" \in DOMAIN trends /\ trends["error"] # JNull)

\* C2: in handleUpload a network failure of the upload (fetch rejecting with
\* a TypeError) sets error to the cannot-connect message; every other failure
\* sets error to the failure's own message, never to the cannot-connect one.
C2_NetworkFailureMessage ==
    (last.act = "handleUpload" /\ uploads[last.slot].live /\ uploads[last.slot].result = "failure")
        => IF last.reply.net = "error"
           THEN landing.error = CannotConnect
           ELSE /\ landing.error # CannotConnect
                /\ landing.error = UploadResult(last.reply).thrown.message

NoDuplicates(seq) == \A i, j \in 1..Len(seq) : i # j => seq[i] # seq[j]

\* The calls of every API-calling action: the uploads of LandingScreen, the
\* loads of ReportOverview and TrendsView, the provider's actions.
AllCalls == {uploads[i] : i \in 1..MaxUploads}
            \cup {overview.call, trends.call}
            \cup {[pc |-> pcalls[i].pc, reqs |-> pcalls[i].reqs, result |-> pcalls[i].result] :
                     i \in 1..MaxCalls}

\* C4: no API-calling action retries: after every step a call has requested
\* each endpoint at most once and a call whose request failed is over, and a
\* step in which a call fails, or of a call that has failed, sends no request.
C4_NoRetry ==
    [][/\ \A c \in AllCalls' : /\ NoDuplicates(c.reqs)
                               /\ c.result = "failure" => c.pc \in {"done", "idle"}
       /\ \A i \in 1..MaxUploads :
             uploads'[i].reqs # uploads[i].reqs => uploads'[i].result = "none"
       /\ overview'.call.reqs # overview.call.reqs => overview'.call.result = "none"
       /\ trends'.call.reqs # trends.call.reqs => trends'.call.result = "none"
       /\ \A i \in 1..MaxCalls :
             pcalls'[i].reqs # pcalls[i].reqs => pcalls'[i].result = "none"]_vars

\* A provider upload that went on to request the latest report, while a
\* second provider call has failed and is over.
C4_Witness == \E i, j \in 1..MaxCalls :
                 /\ pcalls[i].reqs = <<"/reports/upload", "/reports/latest">>
                 /\ pcalls[j].result = "failure" /\ pcalls[j].pc = "done" /\ Len(pcalls[j].reqs) = 1

\* C7: validateAndSetFile starts an upload iff the file's type is one of the
\* four accepted and its size is at most 10 MB; otherwise it sets the type
\* error, or else the size error, sends nothing and leaves selectedFile and
\* isUploading as they were.
C7_ValidateAndSetFile ==
    [][(last'.act \in {"handleDrop", "handleFileSelect"} /\ last'.file # NoFile) =>
          LET f == last'.file
              typeOk == f.type \in {"application/pdf", "image/png", "image/jpeg", "image/jpg"}
              sizeOk == f.size <= 10 * 1024 * 1024
              started == \E i \in 1..MaxUploads : uploads[i].pc = "unused" /\ uploads'[i].pc = "awaiting"
          IN  /\ started <=> (typeOk /\ sizeOk)
              /\ started => /\ landing'.selectedFile = f /\ landing'.isUploading
                            /\ uploads'[last'.slot].reqs = <<"/reports/upload">>
              /\ ~(typeOk /\ sizeOk) =>
                    /\ landing'.error = IF ~typeOk THEN InvalidTypeError ELSE TooLargeError
                    /\ uploads' = uploads
                    /\ landing'.selectedFile = landing.selectedFile
                    /\ landing'.isUploading = landing.isUploading]_vars

\* A file of exactly 10 MB was dropped and its upload started.
C7_Witness == /\ last.act = "handleDrop"
              /\ last.file.size = 10 * 1024 * 1024
              /\ last.slot # 0
              /\ landing.isUploading /\ landing.selectedFile = last.file

\* C8 as stated: the score ReportOverview displays, and every score of the
\* series TrendsView plots, is within 0..100 whatever the backend returned.
C8_ScoresWithinRange ==
    /\ (currentScreen = "overview" /\ OverviewView(overview) = "report")
          => healthClarityScore(overview) \in 0..100
    /\ (currentScreen = "trends" /\ ~trends.isLoading)
          => \A i \in 1..Len(healthScoreData(trends)) : healthScoreData(trends)[i].score \in 0..100

\* C8, amended: ReportOverview displays the score of the returned report as
\* it is, and TrendsView plots the returned score history as it is.
C8_ScoresAsReturned ==
    /\ (last.act = "loadReport" /\ OverviewView(overview) = "report")
          => healthClarityScore(overview) = last.reply.body.fields["health_clarity_score"].score
    /\ (root = "App" /\ last.act = "loadTrends" /\ ~ApiFailed(last.reply)
           /\ last.reply.body.kind = "object")
          => healthScoreData(trends) = last.reply.body.fields["health_score_trend"]

\* A report with score 150 is on display.
C8_Witness == /\ last.act = "loadReport"
              /\ OverviewView(overview) = "report"
              /\ healthClarityScore(overview) = 150

\* C12: LandingScreen never has two upload requests in flight at the same
\* time: no step starts an upload while isUploading is true.
C12_OneUploadInFlight ==
    Cardinality({i \in 1..MaxUploads : uploads[i].live /\ uploads[i].pc = "awaiting"}) <= 1

\* C14: after a loadReport that succeeds the overview shows the report: error
\* is null and reportData is the loaded report, also when the load was a
\* retry after a failed one.
C14_SuccessShowsReport ==
    (last.act = "loadReport" /\ ~ApiFailed(last.reply) /\ last.reply.body.kind = "object")
        => /\ overview.error = JNull
           /\ overview.reportData = last.reply.body
           /\ OverviewView(overview) = "report"

\* C15: after a failed upload LandingScreen is idle (isUploading false,
\* selectedFile null, uploadProgress 0), and stays so until the next upload
\* starts.
C15_IdleAfterFailure ==
    (/\ currentScreen = "landing"
     /\ \E i \in 1..MaxUploads : uploads[i].live /\ uploads[i].result = "failure"
     /\ \A i \in 1..MaxUploads : uploads[i].live => uploads[i].pc = "done")
        => /\ ~landing.isUploading
           /\ landing.selectedFile = NoFile
           /\ landing.uploadProgress = 0

\* C17: the current screen becomes 'processing' only from 'landing', and
\* 'processing' is left only for 'overview'.
C17_ProcessingTransitions ==
    [][/\ (currentScreen' = "processing" /\ currentScreen # "processing") => currentScreen = "landing"
       /\ (currentScreen = "processing" /\ currentScreen' # "processing") => currentScreen' = "overview"]_vars

\* The provider calls that have a request in flight.
InFlight == {i \in 1..MaxCalls : pcalls[i].pc \in {"upload", "latest", "awaiting"}}

\* C13: in ReportProvider isLoading is true whenever at least one action has
\* a request in flight, also when actions overlap.
C13_LoadingWhileInFlight == InFlight # {} => provider.isLoading

\* C16: a call of uploadReport that ends with success had an upload response
\* with success true and a getLatestReport that succeeded, and has set
\* currentReport and uploadProgress 100; one that ends with a failure leaves
\* currentReport unchanged, sets error to the failure's message, rejects,
\* and leaves isLoading false and uploadProgress below 100.  No other step
\* of uploadReport changes currentReport.
C16_UploadReportOutcome ==
    [][last'.act = "uploadReport" =>
          LET c == pcalls'[last'.slot]
              reply == last'.reply
          IN  IF c.pc # "done" THEN provider'.currentReport = provider.currentReport
              ELSE IF c.result = "success"
              THEN /\ Get(c.response, "success") = JTrue
                   /\ c.reqs = <<"/reports/upload", "/reports/latest">>
                   /\ reply.net = "ok" /\ reply.status \in 200..299
                   /\ provider'.currentReport = reply.body
                   /\ provider'.uploadProgress = 100
                   /\ c.promise = "resolved"
              ELSE /\ provider'.currentReport = provider.currentReport
                   /\ provider'.error =
                         IF reply.net # "none" THEN Request(reply).error.message
                         ELSE IF c.response.kind = "null"
                         THEN "Cannot read properties of null (reading 'success')"
                         ELSE Or(Get(c.response, "message"), "Upload failed")
                   /\ c.promise = "rejected"
                   /\ ~provider'.isLoading
                   /\ provider'.uploadProgress < 100]_vars

\* C18: every onComplete of a ProcessingScreen is invoked while that screen
\* is mounted, where it ends the visit: one per visit, and none after the
\* screen has unmounted, with either implementation.
C18_OnCompleteOncePerVisit ==
    [][last'.act = "onComplete" => (currentScreen = "processing" /\ currentScreen' = "overview")]_vars

\* C19: every loading flag is false once the action that set it has
\* completed, on success and on failure alike, and a flag is true only while
\* an action that set it is still running: ReportOverview.isLoading,
\* TrendsView.isLoading, LandingScreen.isUploading, ReportProvider.isLoading.
C19_LoadingFlagsCleared ==
    /\ root = "App" =>
          /\ last.act = "loadReport" => ~overview.isLoading
          /\ last.act = "loadTrends" => ~trends.isLoading
          /\ (last.act = "handleUpload" /\ uploads[last.slot].live) => ~landing.isUploading
          /\ (currentScreen = "overview" /\ overview.isLoading) => overview.call.pc = "awaiting"
          /\ (currentScreen = "trends" /\ trends.isLoading) => trends.call.pc = "awaiting"
          /\ (currentScreen = "landing" /\ landing.isUploading)
                => \E i \in 1..MaxUploads : uploads[i].live /\ uploads[i].pc = "awaiting"
    /\ root = "ReportProvider" =>
          /\ (last.act \in {"uploadReport", "loadLatestReport", "loadTrends", "loadTimeline"}
                  /\ pcalls[last.slot].pc = "done")
                => ~provider.isLoading
          /\ provider.isLoading => \E i \in 1..MaxCalls : pcalls[i].pc \notin {"unused", "done"}

\* Every provider call is over, the last one an upload that failed, and
\* isLoading is false.
C19_Witness == /\ root = "ReportProvider"
               /\ last.act = "uploadReport"
               /\ \A i \in 1..MaxCalls : pcalls[i].pc = "done"
               /\ pcalls[last.slot].result = "failure"
               /\ ~provider.isLoading

\* C20: loadLatestReport, loadTrends and loadTimeline never reject; on
\* failure each sets error to the failure's message and leaves currentReport,
\* trendData and timelineData unchanged; on success each changes only its
\* own data field (currentReport with hasReports, trendData, timelineData).
C20_LoadActionsFrame ==
    [][(root = "ReportProvider" /\ last'.act \in {"loadLatestReport", "loadTrends", "loadTimeline"}) =>
          LET c == pcalls'[last'.slot]
              reply == last'.reply
              own == CASE last'.act = "loadLatestReport" -> "currentReport"
                       [] last'.act = "loadTrends" -> "trendData"
                       [] last'.act = "loadTimeline" -> "timelineData"
          IN  /\ c.pc = "done" /\ c.promise = "resolved"
              /\ \A f \in {"currentReport", "trendData", "timelineData"} \ {own} :
                    provider'[f] = provider[f]
              /\ IF ApiFailed(reply)
                 THEN /\ provider'[own] = provider[own]
                      /\ provider'.hasReports = provider.hasReports
                      /\ provider'.error = Request(reply).error.message
                 ELSE /\ provider'[own] = reply.body
                      /\ provider'.hasReports = (provider.hasReports \/ own = "currentReport")
                      /\ provider'.error = provider.error]_vars

\* A load has failed after another field was loaded, and a load has
\* succeeded and filled its field.
C20_Witness == /\ root = "ReportProvider"
               /\ last.act = "loadTrends" /\ ApiFailed(last.reply)
               /\ provider.error = "Internal error"
               /\ provider.timelineData = TimelineBody
               /\ provider.trendData = JNullBody

\* C24: after loadTrends succeeds with at least one parameter trend,
\* selectedParameter is a key of parameter_trends, and it is the first entry
\* of available_parameters when that list is not empty.
C24_SelectedIsKey ==
    (/\ root = "App" /\ last.act = "loadTrends"
     /\ trends.call.result = "success"
     /\ availableParams(trends) # {})
        => LET avail == last.reply.body.fields["available_parameters"]
           IN  /\ trends.selectedParameter \in availableParams(trends)
               /\ (avail.has /\ Len(avail.list) > 0) => trends.selectedParameter = avail.list[1]

\* C25: the mobile menu is closed whenever the navigation header is hidden,
\* that is on the splash, home, landing and processing screens.
C25_MenuClosedWhenHidden == (root = "App" /\ ~showNavigation) => ~mobileMenuOpen

\* C26: App starts on the splash screen; the splash screen's timer eventually
\* moves it to home and to no other screen; once left, neither splash nor
\* home is the current screen again.
C26_SplashThenHome ==
    /\ root = "App" => currentScreen = "splash"
    /\ [][root = "App" =>
            /\ (currentScreen = "splash" /\ currentScreen' # "splash")
                   => (currentScreen' = "home" /\ splashTimer /\ ~splashTimer')
            /\ currentScreen' = "splash" => currentScreen = "splash"
            /\ currentScreen' = "home" => currentScreen \in {"splash", "home"}]_vars
    /\ (root = "App" /\ currentScreen = "splash") ~> (currentScreen = "home")

\* Both splash and home have been left, and a screen of the header is shown.
C26_Witness == root = "App" /\ ~splashTimer /\ currentScreen = "trends"

\* An upload response whose success field is true.
SuccessTrue(reply) == /\ reply.net = "ok" /\ reply.status \in 200..299
                      /\ reply.body.kind = "object"
                      /\ "success" \in DOMAIN reply.body.fields
                      /\ reply.body.fields["success"] = JTrue

\* C9: onUpload is invoked only after an upload response with success true,
\* once per such response (when its timer has fired), and moves App to the
\* processing screen; after any other response or a failed request it is not
\* invoked for that upload, and error is set.
C9_OnUploadOnlyOnSuccess ==
    /\ \A i \in 1..MaxUploads :
          uploads[i].onUploadCalls = IF uploads[i].pc = "done" /\ uploads[i].result = "success" THEN 1 ELSE 0
    /\ last.act = "handleUpload" =>
          LET c == uploads[last.slot]
          IN  IF SuccessTrue(last.reply)
              THEN c.pc = "timer" /\ c.result = "success"
              ELSE /\ c.pc = "done" /\ c.result = "failure" /\ c.onUploadCalls = 0
                   /\ c.live => landing.error # JNull
    /\ last.act = "onUpload" => (uploads[last.slot].onUploadCalls = 1 /\ currentScreen = "processing")

\* onUpload has been invoked for one upload, and another upload has failed.
C9_Witness == /\ last.act = "onUpload"
              /\ \E i, j \in 1..MaxUploads :
                    /\ uploads[i].onUploadCalls = 1 /\ uploads[i].result = "success"
                    /\ uploads[j].result = "failure" /\ uploads[j].onUploadCalls = 0


(***************************************************************************)
(* Properties of the ProcessingScreen with steps (checked under StepsSpec) *)
(***************************************************************************)
\* C21: onComplete fires only when the last step is the current step
\* (currentStep = 3) and progress has reached 100, and until it fires
\* currentStep never decreases.
C21_CompleteAfterLastStep ==
    [][root = "ProcessingScreen" =>
          /\ processing'.completed > processing.completed
                 => (processing.currentStep = 3 /\ processing.progress = 100)
          /\ processing'.completed = 0
                 => processing'.currentStep >= processing.currentStep]_vars

\* progress is an even integer from 0 to 100.
ProgressInRange == /\ processing.progress \in 0..100
                   /\ processing.progress % 2 = 0

\* C22: progress is in every state an even integer from 0 to 100 and never
\* decreases, also when the effect is re-run and a second interval starts.
C22_ProgressEvenMonotone ==
    /\ ProgressInRange
    /\ [][ProgressInRange' /\ processing'.progress >= processing.progress]_vars

\* The effect was re-run before the last step timer of the first run fired,
\* and the second interval has been ticking for 800 ms.
C22_Witness ==
    /\ root = "ProcessingScreen" /\ processing.mounted /\ processing.reruns = 1
    /\ \E t \in processing.stepTimers : t.run = 0
    /\ ~\E t \in processing.stepTimers : t.run = 1 /\ t.index <= 1
    /\ processing.progress \in 2..98

(***************************************************************************)
(* Properties of the functions (checked under FnSpec)                      *)
(***************************************************************************)
\* A field of a body that is present with a non-empty text.
HasText(body, k) == /\ body.kind = "object"
                    /\ k \in DOMAIN body.fields
                    /\ body.fields[k] \notin {"", JNull}

\* C3: for a non-2xx response request() rejects with an Error whose message
\* is the body's detail when present and non-empty, otherwise its message
\* when present and non-empty, otherwise 'Request failed' (also when the
\* body is not JSON); for a 2xx response it resolves with the parsed body and
\* does not reject on account of the status.
C3_RequestContract ==
    (fn = "request" /\ fnOut.done /\ fnIn.net = "ok") =>
        LET body == fnIn.body
            out == fnOut.settled
        IN  IF fnIn.status \in 200..299
            THEN IF body.kind = "unparseable"
                 THEN out.state = "rejected" /\ out.error.name = "SyntaxError"
                 ELSE out.state = "resolved" /\ out.value = body
            ELSE /\ out.state = "rejected"
                 /\ out.error.name = "Error"
                 /\ out.error.message = IF HasText(body, "detail") THEN body.fields["detail"]
                                        ELSE IF HasText(body, "message") THEN body.fields["message"]
                                        ELSE "Request failed"

\* C5: every request an APIService method issues is sent with credentials
\* 'include', and no method passes a credentials option of its own.
C5_CredentialsIncluded ==
    (fn = "call" /\ fnOut.done) =>
        /\ fnOut.sent.credentials = "include"
        /\ "credentials" \notin DOMAIN MethodCall(fnIn.method, fnIn.arg).options

C5_Witness == /\ fn = "call" /\ fnOut.done
              /\ fnIn.method = "getExplanation"
              /\ fnOut.sent.method = "POST"
              /\ fnOut.sent.credentials = "include"

\* C6: each APIService method requests the HTTP method and the path that the
\* documented endpoint table gives for its operation.
C6_DocumentedEndpoints ==
    (fn = "call" /\ fnOut.done) =>
        /\ fnOut.sent.method = DocEndpoint(fnIn.method, fnIn.arg).method
        /\ fnOut.sent.path = DocEndpoint(fnIn.method, fnIn.arg).path

\* C10: a parameter's status comes from its last data point: low iff
\* value < refLow, high iff not low and value > refHigh, normal otherwise
\* (a value equal to a bound is normal), and normal without data points.
C10_StatusClassification ==
    (fn = "status" /\ fnOut.done) =>
        LET pts == IF fnIn.hasDataPoints THEN fnIn.data_points ELSE <<>>
            st == fnOut.status
        IN  /\ st \in {"normal", "high", "low"}
            /\ pts = <<>> => st = "normal"
            /\ pts # <<>> =>
                 LET p == pts[Len(pts)]
                 IN  /\ st = "low" <=> p.value < p.refLow
                     /\ st = "high" <=> (~(p.value < p.refLow) /\ p.value > p.refHigh)
                     /\ st = "normal" <=> (p.value >= p.refLow /\ p.value <= p.refHigh)

\* A value on the lower bound, after an earlier point below it: normal.
C10_Witness == /\ fn = "status" /\ fnOut.done
               /\ fnIn.hasDataPoints /\ Len(fnIn.data_points) = 2
               /\ fnIn.data_points[1].value < fnIn.data_points[1].refLow
               /\ fnIn.data_points[2].value = fnIn.data_points[2].refLow
               /\ fnOut.status = "normal"

\* C11: getHealthScoreTrend labels a history of fewer than two points 'Stable
\* Trend', and a longer one by d = (score of a chronologically latest point)
\* - (score of a chronologically earliest point): 'Improving Trend' iff
\* d >= 5, 'Declining Trend' iff d <= -5, 'Stable Trend' iff -5 < d < 5.
\* When every date is distinct the two points are unique.
C11_TrendLabel ==
    (fn = "trend" /\ fnOut.done) =>
        LET h == fnIn
            label == fnOut.label
            Earliest == {i \in 1..Len(h) : \A j \in 1..Len(h) : GetTime(h[i].date) <= GetTime(h[j].date)}
            Latest == {i \in 1..Len(h) : \A j \in 1..Len(h) : GetTime(h[j].date) <= GetTime(h[i].date)}
        IN  IF Len(h) < 2 THEN label = "Stable Trend"
            ELSE \E e \in Earliest : \E l \in Latest :
                    LET d == h[l].score - h[e].score
                    IN  /\ label = "Improving Trend" <=> d >= 5
                        /\ label = "Declining Trend" <=> d <= -5
                        /\ label = "Stable Trend" <=> (-5 < d /\ d < 5)

\* A history sent latest point first, five points up over time.
C11_Witness == /\ fn = "trend" /\ fnOut.done
               /\ Len(fnIn) = 2
               /\ GetTime(fnIn[1].date) > GetTime(fnIn[2].date)
               /\ fnIn[1].score - fnIn[2].score = 5
               /\ fnOut.label = "Improving Trend"

\* The percent-encoding of a name for a URI component (RFC 3986): letters
\* and digits as they are, every other character of the model as %XX.
UriEncoded(chars) ==
    [i \in 1..Len(chars) |->
        CASE chars[i] = " " -> "%20"
          [] chars[i] = "%" -> "%25"
          [] chars[i] = "&" -> "%26"
          [] chars[i] = "/" -> "%2F"
          [] chars[i] = "?" -> "%3F"
          [] OTHER -> chars[i]]

\* C23: getHealthScoreTrend returns the same label for every ordering of the
\* same set of points with distinct dates.
C23_OrderIndependent ==
    (/\ fn = "trend" /\ fnOut.done
     /\ \A i, j \in 1..Len(fnIn) : i # j => fnIn[i].date # fnIn[j].date)
        => \A h \in ScoreSeqs :
              (Len(h) = Len(fnIn) /\ {h[i] : i \in 1..Len(h)} = {fnIn[i] : i \in 1..Len(fnIn)})
                 => getHealthScoreTrend(h) = fnOut.label

\* A declining history sent latest point first.
C23_Witness == /\ fn = "trend" /\ fnOut.done
               /\ Len(fnIn) = 2
               /\ GetTime(fnIn[1].date) > GetTime(fnIn[2].date)
               /\ fnIn[1].score - fnIn[2].score = -10
               /\ fnOut.label = "Declining Trend"

\* C27: getTrends requests /reports/trends/data with the query
\* ?parameter=<URI-encoded name> exactly when a non-empty parameter is
\* given, and without a query string when it is omitted or empty.
C27_TrendsQuery ==
    (fn = "call" /\ fnOut.done /\ fnIn.method = "getTrends") =>
        LET named == fnIn.arg.given /\ Len(fnIn.arg.chars) > 0
        IN  /\ fnOut.sent.method = "GET"
            /\ fnOut.sent.path = "/reports/trends/data"
            /\ fnOut.sent.query = IF named THEN "?parameter=" \o Join(UriEncoded(fnIn.arg.chars)) ELSE ""
            /\ fnOut.sent.url = "http://localhost:8000/reports/trends/data" \o fnOut.sent.query

\* A name with a reserved character was given.
C27_Witness == /\ fn = "call" /\ fnOut.done /\ fnIn.method = "getTrends"
               /\ fnIn.arg = Given(<<"a", "&">>)
               /\ fnOut.sent.query = "?parameter=a%26"
====
